---- MODULE Spec2Model ----
(***************************************************************************)
(* Model of the Plugwise config flow                                       *)
(* (homeassistant/components/plugwise/config_flow.py).                     *)
(*                                                                         *)
(* Each flow instance is one PlugwiseConfigFlow object.  The zeroconf step *)
(* and the user step are the two entry points.  The user step suspends    *)
(* exactly once, at "await api.connect()", so a user step with input is    *)
(* two actions: the part before the await and the part after it.           *)
(*                                                                         *)
(* Encoding.  Python strings that the code splits or searches are          *)
(* sequences of one-character strings.  A dict is a function with a set   *)
(* of strings as its domain.  An optional value is a sequence of length    *)
(* zero (None) or one.                                                     *)
(***************************************************************************)
EXTENDS Integers, Sequences, FiniteSets, TLC

(* ------------------------------ bounds --------------------------------- *)

NumFlows == 2

MaxAttempts == 2

Flows == 1..NumFlows

(* --------------------------- option values ----------------------------- *)

None == <<>>

Some(v) == <<v>>

IsNone(o) == Len(o) = 0

Get(o) == o[1]

(* ------------------------------ constants ------------------------------ *)

CONF_BASE == "base"

CONF_HOST == "host"

CONF_NAME == "name"

CONF_PASSWORD == "password"

CONF_PORT == "port"

CONF_USERNAME == "username"

API == "api"

PW_TYPE == "plugwise_type"

DEFAULT_PORT == 80

DEFAULT_USERNAME == <<"s", "m", "i", "l", "e">>

SMILE == <<"s", "m", "i", "l", "e">>

STRETCH == <<"s", "t", "r", "e", "t", "c", "h">>

STRETCH_USERNAME == <<"s", "t", "r", "e", "t", "c", "h">>

FLOW_SMILE == "smile (Adam/Anna/P1)"

FLOW_STRETCH == "stretch (Stretch)"

ZEROCONF_MAP ==
    [smile |-> "P1", smile_thermo |-> "Anna", smile_open_therm |-> "Adam",
     stretch |-> "Stretch"]

(* ------------------------------ dicts ---------------------------------- *)

EmptyDict == [k \in {} |-> k]

\* d[k] = v on a dict: the key is added or its value replaced
DictSet(d, k, v) == [y \in DOMAIN d \cup {k} |-> IF y = k THEN v ELSE d[y]]

(* --------------------------- string functions -------------------------- *)

\* s.split(".")[0]: the characters before the first "." (all of s if none)
RECURSIVE FirstLabel(_)
FirstLabel(s) ==
    IF s = <<>> \/ Head(s) = "." THEN <<>>
    ELSE <<Head(s)>> \o FirstLabel(Tail(s))

\* needle in s, for Python strings
Contains(s, needle) ==
    \E i \in 1..(Len(s) - Len(needle) + 1) :
        SubSeq(s, i, i + Len(needle) - 1) = needle

\* a or b, for optional strings: a when it is neither None nor empty
PyOr(a, b) == IF IsNone(a) \/ Get(a) = <<>> THEN b ELSE a

(* ----------------------------- input sets ------------------------------ *)

Smile1 == <<"s", "m", "i", "l", "e", "1">>

Stretch1 == <<"s", "t", "r", "e", "t", "c", "h", "1">>

\* ZeroconfServiceInfo records the discovery subsystem can deliver
DiscoveryInfos ==
    { [hostname |-> Smile1 \o <<".", "l", "a", "n", ".">>,
       host |-> "192.168.1.10", port |-> 80,
       properties |-> [product |-> "smile_thermo", version |-> "3.1"]],
      [hostname |-> Stretch1 \o <<".", "l", "a", "n", ".">>,
       host |-> "192.168.1.20", port |-> 8080,
       properties |-> [product |-> "stretch_v2"]],
      [hostname |-> Smile1,
       host |-> "192.168.1.20", port |-> 80,
       properties |-> EmptyDict] }

Hosts == {"192.168.1.30"}

Ports == {443}

Passwords == {"secret"}

\* what a submitted form can carry for all four fields
FullInputs ==
    { [host |-> h, port |-> p, username |-> u, password |-> w] :
        h \in Hosts, p \in Ports, u \in {SMILE, STRETCH}, w \in Passwords }

\* what a submitted form can carry for the password alone
PasswordInputs == { [password |-> w] : w \in Passwords }

\* the Smile objects a successful connect() can return: the hostname may be
\* absent, the gateway id is always there
Sessions ==
    { [smile_hostname |-> Some(Smile1), gateway_id |-> Some(<<"g", "1">>),
       smile_name |-> "Anna"],
      [smile_hostname |-> None, gateway_id |-> Some(<<"g", "1">>),
       smile_name |-> "Adam"],
      [smile_hostname |-> Some(Stretch1), gateway_id |-> Some(<<"g", "2">>),
       smile_name |-> "Stretch"] }

(* --------------------------- exception classes ------------------------- *)

\* the direct base class of each exception class a connect() can raise
ExcBase ==
    [InvalidAuthentication |-> "PlugwiseException",
     ConnectionFailedError |-> "PlugwiseException",
     PlugwiseException |-> "Exception",
     TimeoutError |-> "Exception",
     Exception |-> "BaseException"]

\* the classes of the exceptions connect() raises
Raised ==
    {"InvalidAuthentication", "ConnectionFailedError", "PlugwiseException",
     "TimeoutError"}

\* isinstance(e, cls) for an exception of class e
RECURSIVE IsInstance(_, _)
IsInstance(e, cls) ==
    \/ e = cls
    \/ e \in DOMAIN ExcBase /\ IsInstance(ExcBase[e], cls)

\* the except clauses with the broad PlugwiseException clause first
ExceptClausesBroadFirst ==
    << [cls |-> "PlugwiseException", error |-> "cannot_connect", log |-> FALSE],
       [cls |-> "InvalidAuthentication", error |-> "invalid_auth", log |-> FALSE],
       [cls |-> "Exception", error |-> "unknown", log |-> TRUE] >>

\* the except clauses without the catch-all clause
ExceptClausesNoCatchAll ==
    << [cls |-> "InvalidAuthentication", error |-> "invalid_auth", log |-> FALSE],
       [cls |-> "PlugwiseException", error |-> "cannot_connect", log |-> FALSE] >>

\* the except clauses with a catch-all clause that does not log
ExceptClausesNoLog ==
    << [cls |-> "InvalidAuthentication", error |-> "invalid_auth", log |-> FALSE],
       [cls |-> "PlugwiseException", error |-> "cannot_connect", log |-> FALSE],
       [cls |-> "Exception", error |-> "unknown", log |-> FALSE] >>

\* the except clauses of the user step, in source order
ExceptClauses ==
    << [cls |-> "InvalidAuthentication", error |-> "invalid_auth", log |-> FALSE],
       [cls |-> "PlugwiseException", error |-> "cannot_connect", log |-> FALSE],
       [cls |-> "Exception", error |-> "unknown", log |-> TRUE] >>

\* the first except clause that matches an exception of class e (0 if none)
MatchingClause(e) ==
    LET hits == { i \in DOMAIN ExceptClauses : IsInstance(e, ExceptClauses[i].cls) }
    IN  IF hits = {} THEN 0 ELSE CHOOSE i \in hits : \A j \in hits : i <= j

(* ------------------------------- state --------------------------------- *)

VARIABLES
    pc,                 \* where each flow is
    discovery_info,     \* PlugwiseConfigFlow.discovery_info
    username,           \* PlugwiseConfigFlow._username
    unique_id,          \* context["unique_id"] of each flow
    title_placeholders, \* context["title_placeholders"] of each flow
    user_input,         \* the dict a suspended user step is validating
    result,             \* the FlowResult each flow returned last
    entries,            \* the persisted config entries, oldest first
    ncalls,             \* validate_gw_input calls made so far
    nlogged             \* LOGGER.exception calls made so far

vars ==
    <<pc, discovery_info, username, unique_id, title_placeholders,
      user_input, result, entries, ncalls, nlogged>>

Init ==
    /\ pc = [f \in Flows |-> "start"]
    /\ discovery_info = [f \in Flows |-> None]
    /\ username = [f \in Flows |-> DEFAULT_USERNAME]
    /\ unique_id = [f \in Flows |-> None]
    /\ title_placeholders = [f \in Flows |-> None]
    /\ user_input = [f \in Flows |-> None]
    /\ result = [f \in Flows |-> [type |-> "none"]]
    /\ entries = <<>>
    /\ ncalls = 0
    /\ nlogged = 0

(* --------------------------- form and results -------------------------- *)

\* bool(discovery_info): None is false, a ZeroconfServiceInfo is true
Truthy(o) == ~IsNone(o)

\* the schema that asks for all four fields whatever the discovery
BaseGwSchemaIgnoresDiscovery(info) ==
    [host |-> [required |-> TRUE, validator |-> "str"],
     port |-> [required |-> FALSE, default |-> DEFAULT_PORT,
               validator |-> "int"],
     username |-> [required |-> TRUE, default |-> SMILE, validator |-> "In",
                   choices |-> [u \in {SMILE, STRETCH} |->
                       IF u = SMILE THEN FLOW_SMILE ELSE FLOW_STRETCH]],
     password |-> [required |-> TRUE, validator |-> "str"]]

_base_gw_schema(info) ==
    LET base_gw_schema ==
            IF ~Truthy(info)
            THEN [host |-> [required |-> TRUE, validator |-> "str"],
                  port |-> [required |-> FALSE, default |-> DEFAULT_PORT,
                            validator |-> "int"],
                  username |-> [required |-> TRUE, default |-> SMILE,
                                validator |-> "In",
                                choices |-> [u \in {SMILE, STRETCH} |->
                                    IF u = SMILE THEN FLOW_SMILE
                                    ELSE FLOW_STRETCH]]]
            ELSE EmptyDict
    IN  DictSet(base_gw_schema, CONF_PASSWORD,
                [required |-> TRUE, validator |-> "str"])

\* the errors of the user step kept from the form the flow showed last
CarriedErrors(f) ==
    IF result[f].type = "form" THEN result[f].errors ELSE EmptyDict

\* errors = {} at the start of every user step
InitialErrors(f) == EmptyDict

async_show_form(schema, errors) ==
    [type |-> "form", step_id |-> "user", data_schema |-> schema,
     errors |-> errors]

AbortFlow(reason) == [type |-> "abort", reason |-> reason]

async_create_entry(title, data) ==
    [type |-> "create_entry", title |-> title, data |-> data]

(* ------------------------- unique id bookkeeping ----------------------- *)

(***************************************************************************)
(* The flow manager and the entry registry belong to the host platform.    *)
(* They are modelled as the design describes them: setting the unique id   *)
(* stores it in the flow's context; with raise_on_progress it aborts a     *)
(* flow whose id another flow in progress holds; the duplicate check       *)
(* aborts with already_configured when a persisted entry owns the id and   *)
(* does nothing for an id of None; the check and the creation of the entry *)
(* are one step, because the platform serializes them.  The zeroconf       *)
(* step's call passes no raise_on_progress and is modelled as storing the  *)
(* id only.                                                                *)
(***************************************************************************)

\* the flow manager may start flow f: flows are numbered as they start
CanStart(f) ==
    /\ pc[f] = "start"
    /\ \A g \in Flows : g < f => pc[g] # "start"

\* the flows other than f that are in progress
InProgress(f) ==
    { g \in Flows \ {f} : pc[g] \in {"awaiting_input", "validating"} }

\* async_set_unique_id with raise_on_progress raises already_in_progress:
\* another flow in progress holds the id
RaisesOnProgress(f, uid, raise_on_progress) ==
    /\ raise_on_progress
    /\ \E g \in InProgress(f) : unique_id[g] = Some(uid)

\* _abort_if_unique_id_configured raises already_configured for the id
UniqueIdConfigured(uid) ==
    /\ ~IsNone(uid)
    /\ \E i \in DOMAIN entries : entries[i].unique_id = uid

(* ----------------------------- zeroconf step --------------------------- *)

\* properties.get(key, default)
DictGet(d, k, default) == IF k \in DOMAIN d THEN d[k] ELSE default

\* f"{ZEROCONF_MAP.get(_product, _product)} v{_version}", as its three parts
DiscoveryName(properties) ==
    LET _product == DictGet(properties, "product", "None")
        _version == DictGet(properties, "version", "n/a")
    IN  <<DictGet(ZEROCONF_MAP, _product, _product), " v", _version>>

\* the unique id the zeroconf step derives
ZeroconfUniqueId(info) == FirstLabel(info.hostname)

\* the zeroconf step without its duplicate check
ZeroconfNoAbortCheck(uid) == FALSE

\* the zeroconf step's _abort_if_unique_id_configured call
ZeroconfAbortIfConfigured(uid) == UniqueIdConfigured(uid)

\* the username policy with its test inverted
ZeroconfUsernameInverted(uid, current) ==
    IF Contains(uid, DEFAULT_USERNAME) THEN STRETCH_USERNAME ELSE current

\* _username after the zeroconf step's check of the unique id
ZeroconfUsername(uid, current) ==
    IF ~Contains(uid, DEFAULT_USERNAME) THEN STRETCH_USERNAME ELSE current

\* async_step_zeroconf, with the user step it ends in
AsyncStepZeroconf(f, info) ==
    LET uid == ZeroconfUniqueId(info)
        name == ZeroconfUsername(uid, username[f])
    IN  /\ CanStart(f)
        /\ discovery_info' = [discovery_info EXCEPT ![f] = Some(info)]
        /\ unique_id' = [unique_id EXCEPT ![f] = Some(uid)]
        /\ IF ZeroconfAbortIfConfigured(Some(uid))
           THEN /\ pc' = [pc EXCEPT ![f] = "aborted"]
                /\ result' = [result EXCEPT ![f] =
                                 AbortFlow("already_configured")]
                /\ UNCHANGED <<username, title_placeholders>>
           ELSE /\ username' = [username EXCEPT ![f] = name]
                /\ title_placeholders' =
                     [title_placeholders EXCEPT ![f] =
                        Some([host |-> info.host,
                              name |-> DiscoveryName(info.properties),
                              port |-> info.port,
                              username |-> name])]
                /\ pc' = [pc EXCEPT ![f] = "awaiting_input"]
                /\ result' = [result EXCEPT ![f] =
                     async_show_form(_base_gw_schema(Some(info)),
                                     InitialErrors(f))]
        /\ UNCHANGED <<user_input, entries, ncalls, nlogged>>

(* ------------------------------- user step ----------------------------- *)

\* the user step called without input: the form, with no errors
AsyncStepUserNoInput(f) ==
    /\ \/ CanStart(f)
       \/ pc[f] = "awaiting_input"
    /\ pc' = [pc EXCEPT ![f] = "awaiting_input"]
    /\ result' = [result EXCEPT ![f] =
                     async_show_form(_base_gw_schema(discovery_info[f]),
                                     InitialErrors(f))]
    /\ UNCHANGED <<discovery_info, username, unique_id, title_placeholders,
                   user_input, entries, ncalls, nlogged>>

\* what the form of a flow can submit
Submittable(f) ==
    IF Truthy(discovery_info[f]) THEN PasswordInputs \cup FullInputs
    ELSE FullInputs

\* the discovery override that also tags the input before validation
DiscoveryOverrideTagsInput(input, info, name) ==
    LET tagged == DictSet(input, PW_TYPE, API)
    IN  IF Truthy(info)
        THEN DictSet(DictSet(DictSet(tagged, CONF_HOST, Get(info).host),
                             CONF_PORT, Get(info).port),
                     CONF_USERNAME, name)
        ELSE tagged

\* the discovery override that keeps a username the form carried
DiscoveryOverrideKeepsUsername(input, info, name) ==
    IF Truthy(info)
    THEN DictSet(DictSet(DictSet(input, CONF_HOST, Get(info).host),
                         CONF_PORT, Get(info).port),
                 CONF_USERNAME,
                 IF CONF_USERNAME \in DOMAIN input THEN input[CONF_USERNAME]
                 ELSE name)
    ELSE input

\* user_input after the discovery override
DiscoveryOverride(input, info, name) ==
    IF Truthy(info)
    THEN DictSet(DictSet(DictSet(input, CONF_HOST, Get(info).host),
                         CONF_PORT, Get(info).port),
                 CONF_USERNAME, name)
    ELSE input

\* the Smile client validate_gw_input builds from data
SmileClient(data) ==
    [host |-> data[CONF_HOST], password |-> data[CONF_PASSWORD],
     port |-> data[CONF_PORT], username |-> data[CONF_USERNAME],
     timeout |-> 30, verify_ssl |-> FALSE]

\* the user step with input, up to "await api.connect()"
AsyncStepUserSubmit(f, input) ==
    LET data == DiscoveryOverride(input, discovery_info[f], username[f])
    IN  /\ pc[f] = "awaiting_input"
        /\ ncalls < MaxAttempts
        /\ input \in Submittable(f)
        /\ user_input' = [user_input EXCEPT ![f] = Some(data)]
        /\ ncalls' = ncalls + 1
        /\ pc' = [pc EXCEPT ![f] = "validating"]
        /\ UNCHANGED <<discovery_info, username, unique_id,
                       title_placeholders, result, entries, nlogged>>

\* the user step when connect() raises an exception of class e
AsyncStepUserRaises(f, e) ==
    LET i == MatchingClause(e)
    IN  /\ pc[f] = "validating"
        /\ e \in Raised
        /\ user_input' = [user_input EXCEPT ![f] = None]
        /\ IF i = 0
           THEN /\ pc' = [pc EXCEPT ![f] = "raised"]
                /\ result' = [result EXCEPT ![f] =
                                 [type |-> "exception", cls |-> e]]
                /\ UNCHANGED nlogged
           ELSE /\ pc' = [pc EXCEPT ![f] = "awaiting_input"]
                /\ nlogged' = IF ExceptClauses[i].log THEN nlogged + 1
                               ELSE nlogged
                /\ result' = [result EXCEPT ![f] =
                     async_show_form(_base_gw_schema(discovery_info[f]),
                         DictSet(InitialErrors(f), CONF_BASE,
                                 ExceptClauses[i].error))]
        /\ UNCHANGED <<discovery_info, username, unique_id,
                       title_placeholders, entries, ncalls>>

\* the unique id taken from the gateway id alone
SessionUniqueIdGatewayOnly(api) == api.gateway_id

\* the unique id the user step resolves from the validated session
SessionUniqueId(api) == PyOr(api.smile_hostname, api.gateway_id)

\* the user step's async_set_unique_id call with the default flag
UserRaiseOnProgressDefault == TRUE

\* raise_on_progress of the user step's async_set_unique_id call
UserRaiseOnProgress == FALSE

\* the user step without its duplicate check
UserNoAbortCheck(uid) == FALSE

\* the user step's _abort_if_unique_id_configured call
UserAbortIfConfigured(uid) == UniqueIdConfigured(uid)

\* the user step without the connection-type tag
TagInputOmitted(data) == data

\* user_input[PW_TYPE] = API
TagInput(data) == DictSet(data, PW_TYPE, API)

\* the title of the entry the user step creates
EntryTitle(api) == api.smile_name

\* the user step when connect() returns the session api
AsyncStepUserConnected(f, api) ==
    LET uid == SessionUniqueId(api)
        data == TagInput(Get(user_input[f]))
    IN  /\ pc[f] = "validating"
        /\ api \in Sessions
        /\ user_input' = [user_input EXCEPT ![f] = None]
        /\ IF ~IsNone(uid) /\ RaisesOnProgress(f, Get(uid), UserRaiseOnProgress)
           THEN /\ pc' = [pc EXCEPT ![f] = "aborted"]
                /\ result' = [result EXCEPT ![f] = AbortFlow("already_in_progress")]
                /\ UNCHANGED <<unique_id, entries>>
           ELSE /\ unique_id' = [unique_id EXCEPT ![f] = uid]
                /\ IF UserAbortIfConfigured(uid)
                   THEN /\ pc' = [pc EXCEPT ![f] = "aborted"]
                        /\ result' = [result EXCEPT ![f] =
                                         AbortFlow("already_configured")]
                        /\ UNCHANGED entries
                   ELSE /\ pc' = [pc EXCEPT ![f] = "entry_created"]
                        /\ result' = [result EXCEPT ![f] =
                             async_create_entry(EntryTitle(api), data)]
                        /\ entries' = Append(entries,
                             [unique_id |-> uid, title |-> EntryTitle(api),
                              data |-> data, flow |-> f])
        /\ UNCHANGED <<discovery_info, username, title_placeholders,
                       ncalls, nlogged>>

(* --------------------------- specification ----------------------------- *)

Next ==
    \/ \E f \in Flows, info \in DiscoveryInfos : AsyncStepZeroconf(f, info)
    \/ \E f \in Flows : AsyncStepUserNoInput(f)
    \/ \E f \in Flows, input \in PasswordInputs \cup FullInputs :
          AsyncStepUserSubmit(f, input)
    \/ \E f \in Flows, e \in Raised : AsyncStepUserRaises(f, e)
    \/ \E f \in Flows, api \in Sessions : AsyncStepUserConnected(f, api)

Spec == Init /\ [][Next]_vars

(* ------------------------------ properties ----------------------------- *)

\* the flow that was stopped by the zeroconf step's duplicate check
AbortedAtDiscovery(f) ==
    /\ pc[f] = "aborted"
    /\ Truthy(discovery_info[f])
    /\ IsNone(title_placeholders[f])

\* host, port and username of data are those of the flow's discovery
FromDiscovery(f, data) ==
    /\ data[CONF_HOST] = Get(discovery_info[f]).host
    /\ data[CONF_PORT] = Get(discovery_info[f]).port
    /\ data[CONF_USERNAME] = username[f]

\* C1: in a flow that holds a discovery record, the host, port and username
\* the Smile client is built from, and those of the entry the flow creates,
\* are the record's host and port and the flow's username, whatever the
\* form submitted.
C1_DiscoveryOverridesInput ==
    /\ \A f \in Flows :
          pc[f] = "validating" /\ Truthy(discovery_info[f]) =>
             FromDiscovery(f, SmileClient(Get(user_input[f])))
    /\ \A i \in DOMAIN entries :
          Truthy(discovery_info[entries[i].flow]) =>
             FromDiscovery(entries[i].flow, entries[i].data)

\* a discovery flow has created an entry, with a port no form can submit
C1_Witness ==
    \E i \in DOMAIN entries :
        /\ Truthy(discovery_info[entries[i].flow])
        /\ entries[i].data[CONF_PORT] \notin Ports
        /\ entries[i].data[CONF_HOST] \notin Hosts

\* C2: a successful validation whose unique id no entry owns appends exactly
\* one entry, tagged PW_TYPE = "api" and titled with the session's name, and
\* returns it as the flow's result; a flow that created its entry takes no
\* further step.
C2_ValidSubmissionCreatesEntry ==
    [][\A f \in Flows :
         /\ \A api \in Sessions :
               /\ AsyncStepUserConnected(f, api)
               /\ ~UniqueIdConfigured(SessionUniqueId(api))
               => /\ Len(entries') = Len(entries) + 1
                  /\ SubSeq(entries', 1, Len(entries)) = entries
                  /\ LET e == entries'[Len(entries')]
                     IN  /\ e.flow = f
                         /\ e.title = api.smile_name
                         /\ PW_TYPE \in DOMAIN e.data
                         /\ e.data[PW_TYPE] = API
                         /\ result'[f].type = "create_entry"
                         /\ result'[f].title = api.smile_name
                         /\ result'[f].data = e.data
                  /\ pc'[f] = "entry_created"
         /\ pc[f] = "entry_created" =>
               /\ pc'[f] = "entry_created"
               /\ result'[f] = result[f]
               /\ \A i \in DOMAIN entries' :
                     entries'[i].flow = f => i \in DOMAIN entries
      ]_vars

\* a flow has created a tagged entry and returned it
C2_Witness ==
    \E f \in Flows :
        /\ pc[f] = "entry_created"
        /\ result[f].type = "create_entry"
        /\ \E i \in DOMAIN entries :
              /\ entries[i].flow = f
              /\ entries[i].data[PW_TYPE] = API
              /\ entries[i].title = result[f].title

\* no two persisted entries have the same unique id
NoDuplicateUniqueIds ==
    \A i, j \in DOMAIN entries :
        i # j => entries[i].unique_id # entries[j].unique_id

\* C3: a successful validation whose unique id an entry already owns aborts
\* the flow with already_configured and leaves the entries as they are; no
\* two entries ever have the same unique id.
C3_DuplicateAbortsAfterValidation ==
    [][/\ \A f \in Flows, api \in Sessions :
             /\ AsyncStepUserConnected(f, api)
             /\ UniqueIdConfigured(SessionUniqueId(api))
             => /\ pc'[f] = "aborted"
                /\ result'[f].type = "abort"
                /\ result'[f].reason = "already_configured"
                /\ entries' = entries
       /\ NoDuplicateUniqueIds'
      ]_vars

\* a flow was aborted after a validation, by the entry of another flow
C3_Witness ==
    \E f \in Flows :
        /\ pc[f] = "aborted"
        /\ ~AbortedAtDiscovery(f)
        /\ result[f] = AbortFlow("already_configured")
        /\ \E i \in DOMAIN entries :
              entries[i].unique_id = unique_id[f] /\ entries[i].flow # f

\* C4: a discovery whose hostname's first label is the unique id of an entry
\* aborts the flow with already_configured: the step returns no form, makes
\* no validation call and creates no entry, and the flow takes no further
\* step.
C4_DiscoveredDuplicateAborts ==
    [][\A f \in Flows :
         /\ \A info \in DiscoveryInfos :
               /\ AsyncStepZeroconf(f, info)
               /\ UniqueIdConfigured(Some(FirstLabel(info.hostname)))
               => /\ pc'[f] = "aborted"
                  /\ result'[f].type = "abort"
                  /\ result'[f].reason = "already_configured"
                  /\ entries' = entries
                  /\ ncalls' = ncalls
                  /\ IsNone(user_input'[f])
         /\ pc[f] = "aborted" =>
               /\ pc'[f] = "aborted"
               /\ result'[f] = result[f]
               /\ \A i \in DOMAIN entries' :
                     entries'[i].flow = f => i \in DOMAIN entries
      ]_vars

\* a discovery was aborted by the entry that owns its unique id
C4_Witness ==
    \E f \in Flows :
        /\ AbortedAtDiscovery(f)
        /\ result[f] = AbortFlow("already_configured")
        /\ \E i \in DOMAIN entries :
              entries[i].unique_id =
                 Some(FirstLabel(Get(discovery_info[f]).hostname))

\* C5: when connect() raises InvalidAuthentication the user step returns the
\* form with errors = {"base": "invalid_auth"}, creates no entry and leaves
\* the flow awaiting input, although InvalidAuthentication is a
\* PlugwiseException too.
C5_InvalidAuthReshowsForm ==
    [][\A f \in Flows :
         AsyncStepUserRaises(f, "InvalidAuthentication") =>
            /\ IsInstance("InvalidAuthentication", "PlugwiseException")
            /\ pc'[f] = "awaiting_input"
            /\ result'[f].type = "form"
            /\ DOMAIN result'[f].errors = {CONF_BASE}
            /\ result'[f].errors[CONF_BASE] = "invalid_auth"
            /\ entries' = entries
      ]_vars

\* a flow awaits input with the invalid_auth error on its form
C5_Witness ==
    \E f \in Flows :
        /\ pc[f] = "awaiting_input"
        /\ result[f].type = "form"
        /\ CONF_BASE \in DOMAIN result[f].errors
        /\ result[f].errors[CONF_BASE] = "invalid_auth"

\* the form a failed attempt returns: one error, under "base"
ErrorForm(r) ==
    /\ r.type = "form"
    /\ DOMAIN r.errors = {CONF_BASE}

\* one input every form can submit
AnyInput == CHOOSE input \in FullInputs : TRUE

SmileDiscoveries ==
    { info \in DiscoveryInfos :
        Contains(FirstLabel(info.hostname), DEFAULT_USERNAME) }

\* the username the policy gives a flow that went on from its discovery
UsernamePolicy(f) ==
    IF ~Truthy(discovery_info[f]) THEN username[f] = DEFAULT_USERNAME
    ELSE IF AbortedAtDiscovery(f) THEN TRUE
    ELSE /\ username[f] \in {DEFAULT_USERNAME, STRETCH_USERNAME}
         /\ username[f] = STRETCH_USERNAME
               <=> Get(discovery_info[f]) \notin SmileDiscoveries

\* C7: a flow that went on from its discovery has the stretch username
\* exactly when the first label of the discovered hostname does not contain
\* "smile"; a flow without discovery has the default username; no step
\* after the first changes a flow's username.
C7_UsernameFollowsDiscoveredId ==
    [][\A f \in Flows :
         /\ UsernamePolicy(f)'
         /\ pc[f] # "start" => username'[f] = username[f]
      ]_vars

\* a stretch discovery and a smile discovery, both past a user step
C7_Witness ==
    \E f, g \in Flows :
        /\ username[f] = STRETCH_USERNAME
        /\ Truthy(discovery_info[f])
        /\ FirstLabel(Get(discovery_info[f]).hostname) = Stretch1
        /\ pc[f] = "entry_created"
        /\ Truthy(discovery_info[g])
        /\ username[g] = DEFAULT_USERNAME
        /\ FirstLabel(Get(discovery_info[g]).hostname) = Smile1
        /\ pc[g] = "validating"

\* the state of the flow, in the names of the state machine
FlowState(f) ==
    IF pc[f] = "aborted" THEN result[f].reason ELSE pc[f]

\* the transitions of the state machine as stated
StatedEdges ==
    { <<"start", "awaiting_input">>,
      <<"awaiting_input", "validating">>,
      <<"validating", "entry_created">>,
      <<"validating", "awaiting_input">>,
      <<"validating", "already_configured">> }

\* a step of the flows along the edges es of the state machine
FollowsMachine(es) ==
    \A f \in Flows :
        /\ FlowState(f)' \in {"start", "awaiting_input", "validating",
                              "entry_created", "already_configured"}
        /\ FlowState(f)' # FlowState(f) => <<FlowState(f), FlowState(f)'>> \in es
        /\ <<FlowState(f), FlowState(f)'>> = <<"validating", "awaiting_input">>
              => ErrorForm(result'[f])
        /\ FlowState(f) \in {"entry_created", "already_configured"} =>
              /\ result'[f] = result[f]
              /\ unique_id'[f] = unique_id[f]
        /\ (\E i \in DOMAIN entries' : i \notin DOMAIN entries
                                        /\ entries'[i].flow = f)
              => /\ <<FlowState(f), FlowState(f)'>> =
                       <<"validating", "entry_created">>
                 /\ \E api \in Sessions : AsyncStepUserConnected(f, api)

ExpectedError(e) ==
    IF e = "InvalidAuthentication" THEN "invalid_auth"
    ELSE IF IsInstance(e, "PlugwiseException") THEN "cannot_connect"
    ELSE "unknown"

\* C9: an exception of connect() that is a PlugwiseException other than
\* InvalidAuthentication gives cannot_connect, any other one is logged once
\* and gives unknown; the step returns the form with exactly that one base
\* error and lets no exception out.
C9_FailureClassification ==
    [][\A f \in Flows, e \in Raised :
         AsyncStepUserRaises(f, e) =>
            /\ pc'[f] = "awaiting_input"
            /\ ErrorForm(result'[f])
            /\ result'[f].errors[CONF_BASE] = ExpectedError(e)
            /\ nlogged' = IF ExpectedError(e) = "unknown" THEN nlogged + 1
                          ELSE nlogged
      ]_vars

\* forms with cannot_connect and with unknown, the latter logged
C9_Witness ==
    \E f, g \in Flows :
        /\ pc[f] = "awaiting_input" /\ pc[g] = "awaiting_input"
        /\ ErrorForm(result[f]) /\ ErrorForm(result[g])
        /\ result[f].errors[CONF_BASE] = "cannot_connect"
        /\ result[g].errors[CONF_BASE] = "unknown"
        /\ nlogged = 1

\* the flow ended after a successful validation
ValidatedOk(f) ==
    \/ pc[f] = "entry_created"
    \/ pc[f] = "aborted" /\ ~AbortedAtDiscovery(f)

\* the entries that own the unique id of flow f
Owners(f) == { i \in DOMAIN entries : entries[i].unique_id = unique_id[f] }

\* of the flows that validated one device, one created the entry
OneEntryPerDevice ==
    \A f \in Flows :
        ValidatedOk(f) =>
           /\ Cardinality(Owners(f)) = 1
           /\ pc[f] = "entry_created" =>
                 \A i \in Owners(f) : entries[i].flow = f
           /\ pc[f] = "aborted" =>
                 /\ result[f] = AbortFlow("already_configured")
                 /\ \A i \in Owners(f) : entries[i].flow # f

\* C10: a successful validation aborts the flow only when an entry owns
\* the resolved unique id, and creates the entry otherwise, whichever flows
\* in progress hold that id; of the flows that validated the same device
\* exactly one created the entry and the others ended already_configured.
C10_ProgressSafeDuplicateCheck ==
    [][/\ \A f \in Flows, api \in Sessions :
             AsyncStepUserConnected(f, api) =>
                IF UniqueIdConfigured(SessionUniqueId(api))
                THEN /\ pc'[f] = "aborted"
                     /\ result'[f].reason = "already_configured"
                ELSE pc'[f] = "entry_created"
       /\ OneEntryPerDevice'
      ]_vars

\* a discovered flow held the id while another flow created the entry for
\* it, then validated the same device and was aborted
C10_Witness ==
    \E f, g \in Flows :
        /\ pc[f] = "entry_created"
        /\ pc[g] = "aborted"
        /\ Truthy(discovery_info[g])
        /\ ~IsNone(title_placeholders[g])
        /\ unique_id[g] = Some(FirstLabel(Get(discovery_info[g]).hostname))
        /\ unique_id[f] = unique_id[g]

\* the fields a form without discovery asks for
ManualFields(schema) ==
    /\ DOMAIN schema = {CONF_HOST, CONF_PORT, CONF_USERNAME, CONF_PASSWORD}
    /\ schema[CONF_HOST].required /\ schema[CONF_HOST].validator = "str"
    /\ ~schema[CONF_PORT].required /\ schema[CONF_PORT].validator = "int"
    /\ schema[CONF_PORT].default = DEFAULT_PORT
    /\ schema[CONF_USERNAME].required
    /\ schema[CONF_USERNAME].validator = "In"
    /\ DOMAIN schema[CONF_USERNAME].choices = {SMILE, STRETCH}
    /\ Cardinality(DOMAIN schema[CONF_USERNAME].choices) = 2
    /\ schema[CONF_USERNAME].default = DEFAULT_USERNAME
    /\ schema[CONF_PASSWORD].required /\ schema[CONF_PASSWORD].validator = "str"

\* the fields a form of a discovered flow asks for
DiscoveredFields(schema) ==
    /\ DOMAIN schema = {CONF_PASSWORD}
    /\ schema[CONF_PASSWORD].required /\ schema[CONF_PASSWORD].validator = "str"

\* C11: every form a flow shows, the first and those after failed attempts,
\* asks for host, port (optional, default 80), username (smile or stretch,
\* default smile) and password when the flow holds no discovery record, and
\* for the password alone when it holds one.
C11_FormFieldsFollowDiscovery ==
    \A f \in Flows :
        result[f].type = "form" =>
           /\ result[f].step_id = "user"
           /\ IF Truthy(discovery_info[f])
              THEN DiscoveredFields(result[f].data_schema)
              ELSE ManualFields(result[f].data_schema)

\* a discovered flow and a manual flow each show the form of a failed attempt
C11_Witness ==
    \E f, g \in Flows :
        /\ Truthy(discovery_info[f]) /\ ~Truthy(discovery_info[g])
        /\ pc[f] = "awaiting_input" /\ pc[g] = "awaiting_input"
        /\ ErrorForm(result[f]) /\ ErrorForm(result[g])
        /\ DOMAIN result[f].data_schema = {CONF_PASSWORD}
        /\ CONF_HOST \in DOMAIN result[g].data_schema

\* the id the session gives: its hostname, or its gateway id without one
SessionDerivedId(api) ==
    IF IsNone(api.smile_hostname) THEN api.gateway_id ELSE api.smile_hostname

\* C12: a successful validation sets the flow's unique id to the session's
\* hostname when there is one and to its gateway id otherwise, also in a
\* flow whose id came from the discovered hostname; the flow is aborted
\* exactly when an entry owns this id of the session, and creates its entry
\* under it otherwise.
C12_UniqueIdFromSession ==
    [][\A f \in Flows, api \in Sessions :
         AsyncStepUserConnected(f, api) =>
            /\ unique_id'[f] = SessionDerivedId(api)
            /\ IF \E i \in DOMAIN entries :
                     entries[i].unique_id = SessionDerivedId(api)
               THEN pc'[f] = "aborted" /\ entries' = entries
               ELSE /\ pc'[f] = "entry_created"
                    /\ Len(entries') = Len(entries) + 1
                    /\ entries'[Len(entries')].unique_id = SessionDerivedId(api)
      ]_vars

\* a discovered flow created its entry under the gateway id, although
\* another flow's entry owns the id of the discovered hostname
C12_Witness ==
    \E f \in Flows :
        /\ pc[f] = "entry_created"
        /\ Truthy(discovery_info[f])
        /\ unique_id[f] # Some(FirstLabel(Get(discovery_info[f]).hostname))
        /\ \E i \in DOMAIN entries :
              entries[i].flow = f /\ entries[i].unique_id = unique_id[f]
        /\ \E i \in DOMAIN entries :
              /\ entries[i].flow # f
              /\ entries[i].unique_id =
                    Some(FirstLabel(Get(discovery_info[f]).hostname))

\* the form with no error on it
CleanForm(r) ==
    /\ r.type = "form"
    /\ DOMAIN r.errors = {}

FailureFrame(f) ==
    /\ entries' = entries
    /\ discovery_info'[f] = discovery_info[f]
    /\ username'[f] = username[f]
    /\ unique_id'[f] = unique_id[f]

\* C14: a user step that ends in invalid_auth, cannot_connect or unknown
\* leaves the entries and the flow's discovery record, default username
\* and unique id as they were, and the input it validated has no
\* connection-type tag; the tag is on the data of the entry that the
\* successful step creates, and on nothing else of that input.
C14_FailureChangesOnlyTheForm ==
    /\ [](\A f \in Flows :
            pc[f] = "validating" =>
               /\ ~IsNone(user_input[f])
               /\ PW_TYPE \notin DOMAIN Get(user_input[f]))
    /\ [][\A f \in Flows :
            /\ \A input \in PasswordInputs \cup FullInputs :
                  AsyncStepUserSubmit(f, input) => FailureFrame(f)
            /\ \A e \in Raised :
                  AsyncStepUserRaises(f, e) =>
                     /\ FailureFrame(f)
                     /\ ErrorForm(result'[f])
                     /\ result'[f].errors[CONF_BASE] \in
                           {"invalid_auth", "cannot_connect", "unknown"}
            /\ \A api \in Sessions :
                  AsyncStepUserConnected(f, api) /\ pc'[f] = "entry_created" =>
                     LET data == entries'[Len(entries')].data
                     IN  /\ DOMAIN data = DOMAIN Get(user_input[f]) \cup {PW_TYPE}
                         /\ data[PW_TYPE] = API
                         /\ \A k \in DOMAIN Get(user_input[f]) :
                               data[k] = Get(user_input[f])[k]
       ]_vars

\* the second flow holds a discovered device and a unique id, failed an
\* attempt after the first flow created its entry, and shows the error
C14_Witness ==
    /\ pc[1] = "entry_created"
    /\ pc[2] = "awaiting_input"
    /\ ErrorForm(result[2])
    /\ Truthy(discovery_info[2])
    /\ username[2] = STRETCH_USERNAME
    /\ ~IsNone(unique_id[2])
    /\ Len(entries) = 1
    /\ PW_TYPE \in DOMAIN entries[1].data

====
